---------------------------- MODULE Spec2Model ----------------------------
(***************************************************************************)
(* TraktorBox: the two collection parsers of src/Parsers.py (TraktorParser *)
(* for collection.nml, RecordBoxParser for recordbox.xml), the playlist    *)
(* insertion of each, the cross-format song resolution of Exporter and the *)
(* save with backup of Parser.                                             *)
(*                                                                         *)
(* Strings the code transforms (paths) are sequences of one-character      *)
(* strings, so that the path conversions are computed, not assumed.        *)
(* Python's None is the string "None"; an unbound local is "unbound".      *)
(***************************************************************************)
EXTENDS Integers, Sequences, FiniteSets, TLC

VARIABLES
    kind,            \* which parser class the object is: "Traktor" | "RecordBox"
    status,          \* "parsed" (Parser.__init__ up to line 138), "ready", "error"
    collection,      \* children of the document's COLLECTION element
    playlists_tree,  \* children of the retained playlists container element
    songs,           \* self.songs
    playlists,       \* self.playlists
    files,           \* the file system: path -> content, or "absent"
    last             \* the last call made on the parser: arguments and outcome

vars == <<kind, status, collection, playlists_tree, songs, playlists, files, last>>

---------------------------------------------------------------------------
(* Bounds of the model *)

\* most playlists a collection holds in the positioning specification
MaxPlaylists == 3
\* explicit indexes passed to add_playlist_to_tree range over -MaxIndex..MaxIndex
MaxIndex == 4
\* most playlists handed to one add_playlists_to_tree call
MaxBatch == 2
\* most songs of a playlist handed to an insertion in the membership specification
MaxLen == 2
\* most playlists inserted in one behaviour of the membership specification
MaxTransfers == 1
\* most song entries of a parsed COLLECTION in the traversal specification
MaxEntries == 2
\* longest native path handed to the token-path conversions
MaxPathLen == 4
\* most calls of get_songs_and_playlists on a constructed parser
MaxCalls == 2

---------------------------------------------------------------------------
(* Python built-ins the code relies on *)

None == "None"

Range(s) == {s[i] : i \in 1..Len(s)}

\* all sequences over S of length 0..n
SeqsUpTo(S, n) == UNION {[1..k -> S] : k \in 0..n}

\* list.insert(index, x) places x at this 0-based position: a negative index
\* counts from the end, and the result is clamped to 0..len
InsertPos(len, index) ==
    IF index < 0
    THEN (IF index + len < 0 THEN 0 ELSE index + len)
    ELSE (IF index > len THEN len ELSE index)

InsertAt(s, pos, x) == SubSeq(s, 1, pos) \o <<x>> \o SubSeq(s, pos + 1, Len(s))

\* a mutation of ListInsert: a negative index is taken as 0
ListInsertNegativeAsZero(s, index, x) ==
    InsertAt(s, IF index < 0 THEN 0 ELSE InsertPos(Len(s), index), x)

\* self.playlists.insert(index, playlist)
ListInsert(s, index, x) == InsertAt(s, InsertPos(Len(s), index), x)

\* a mutation of ElementInsert: an index beyond the end is not clamped and the
\* node is dropped at the front instead
ElementInsertFront(s, index, x) ==
    InsertAt(s, IF index > Len(s) THEN 0 ELSE InsertPos(Len(s), index), x)

\* self.playlists_tree.insert(index, node): xml.etree's Element.insert follows
\* list.insert
ElementInsert(s, index, x) == InsertAt(s, InsertPos(Len(s), index), x)

\* str.startswith(prefix)
StartsWith(s, prefix) ==
    /\ Len(s) >= Len(prefix)
    /\ SubSeq(s, 1, Len(prefix)) = prefix

\* str.replace(old, new) for a one-character old
RECURSIVE ReplaceChar(_, _, _)
ReplaceChar(s, old, new) ==
    IF s = <<>> THEN <<>>
    ELSE (IF Head(s) = old THEN new ELSE <<Head(s)>>) \o ReplaceChar(Tail(s), old, new)

\* str.split(sep): the pieces between the non-overlapping occurrences of sep,
\* found left to right
RECURSIVE SplitFrom(_, _, _)
SplitFrom(s, sep, piece) ==
    IF s = <<>> THEN <<piece>>
    ELSE IF StartsWith(s, sep)
         THEN <<piece>> \o SplitFrom(SubSeq(s, Len(sep) + 1, Len(s)), sep, <<>>)
         ELSE SplitFrom(Tail(s), sep, Append(piece, Head(s)))

Split(s, sep) == SplitFrom(s, sep, <<>>)

\* sep.join(pieces)
RECURSIVE Join(_, _)
Join(pieces, sep) ==
    IF pieces = <<>> THEN <<>>
    ELSE IF Len(pieces) = 1 THEN pieces[1]
    ELSE pieces[1] \o sep \o Join(Tail(pieces), sep)

\* str.removeprefix(prefix)
RemovePrefix(s, prefix) ==
    IF StartsWith(s, prefix) THEN SubSeq(s, Len(prefix) + 1, Len(s)) ELSE s

\* the percent escapes the model's paths use: "%20" is a space, "%25" a percent
Escapes == {<<"2", "0">>, <<"2", "5">>}

Unescape(code) == IF code = <<"2", "0">> THEN " " ELSE "%"

\* urllib.parse.unquote: every "%" followed by two hex digits becomes the
\* character they encode; anything else is kept
RECURSIVE Unquote(_)
Unquote(s) ==
    IF s = <<>> THEN <<>>
    ELSE IF Head(s) = "%" /\ Len(s) >= 3 /\ SubSeq(s, 2, 3) \in Escapes
         THEN <<Unescape(SubSeq(s, 2, 3))>> \o Unquote(SubSeq(s, 4, Len(s)))
         ELSE <<Head(s)>> \o Unquote(Tail(s))

---------------------------------------------------------------------------
(* Song: the three path representations *)

BackSlash == <<"\\">>
Token == <<"/", ":">>
LocalHost ==
    <<"f", "i", "l", "e", ":", "/", "/", "l", "o", "c", "a", "l", "h", "o", "s", "t", "/">>

record_path_to_normal_path(record_path) ==
    ReplaceChar(RemovePrefix(Unquote(record_path), LocalHost), "/", BackSlash)

normal_path_to_traktor_path(path) == ReplaceChar(path, "\\", Token)

\* a mutation of traktor_path_to_normal_path: the split is on "/" alone
traktor_path_split_on_slash(traktor_path) == Join(Split(traktor_path, <<"/">>), BackSlash)

traktor_path_to_normal_path(traktor_path) == Join(Split(traktor_path, Token), BackSlash)

\* RecordSong.__init__
RecordSong(id, name, record_path) ==
    [variant |-> "RecordSong", name |-> name, id |-> id,
     source_path |-> record_path,
     path |-> record_path_to_normal_path(record_path)]

\* TraktorSong.__init__; a TraktorSong has no id attribute
TraktorSong(name, traktor_path) ==
    [variant |-> "TraktorSong", name |-> name, id |-> "no attribute",
     source_path |-> traktor_path,
     path |-> traktor_path_to_normal_path(traktor_path)]

\* Playlist.__init__
Playlist(name, playlist_songs) == [name |-> name, songs |-> playlist_songs]

\* Playlist.nb_entries
nb_entries(playlist) == Len(playlist.songs)

---------------------------------------------------------------------------
(* The documents the model parses *)

Kinds == {"Traktor", "RecordBox"}

\* the two playlist names TraktorParser keeps at the end (line 272)
Reserved == {"_LOOPS", "_RECORDINGS"}

Names == {"House"} \cup Reserved

\* token paths (collection.nml) and URI locations (recordbox.xml) of three files:
\* C:\a, C:\b c and C:\c
TokenA == <<"C", ":", "/", ":", "a">>
TokenB == <<"C", ":", "/", ":", "b", " ", "c">>
TokenC == <<"C", ":", "/", ":", "c">>
UriA == LocalHost \o <<"C", ":", "/", "a">>
UriB == LocalHost \o <<"C", ":", "/", "b", "%", "2", "0", "c">>

\* a LOCATION element of collection.nml
Location(file) == [VOLUME |-> <<"C", ":">>, DIR |-> Token, FILE |-> file]

\* an ENTRY of the Traktor COLLECTION: its TITLE and its LOCATION children
TraktorEntry(title, locations) == [TITLE |-> title, LOCATION |-> locations]

EntryA == TraktorEntry("A", <<Location(<<"a">>)>>)
EntryB == TraktorEntry("B", <<Location(<<"b", " ", "c">>)>>)

\* a TRACK of the Rekordbox COLLECTION
RecordTrack(id, name, location) == [TrackID |-> id, Name |-> name, Location |-> location]

Track1 == RecordTrack("1", "A", UriA)
Track2 == RecordTrack("2", "B", UriB)
Track3 == RecordTrack("3", "A again", UriA)

\* a playlist node of either dialect: NAME / Name, ENTRIES / Entries and the
\* song references in order (the KEY of each ENTRY/PRIMARYKEY, the Key of each
\* TRACK).  The UUID, TYPE and KeyType attributes are read by no operation.
Node(name, entries, keys) == [name |-> name, entries |-> entries, keys |-> keys]

\* the songs the insertions are given
SongA == TraktorSong("A", TokenA)
SongB == TraktorSong("B", TokenB)
SongC == TraktorSong("C", TokenC)
Record2 == RecordSong("2", "B", UriB)

---------------------------------------------------------------------------
(* get_songs_and_playlists *)

\* dict[key] = value
DictSet(dict, key, value) == [k \in DOMAIN dict \cup {key} |-> IF k = key THEN value ELSE dict[k]]

EmptyDict == [k \in {} |-> None]

\* lines 211-225: the songs of the Traktor COLLECTION.  traktor_path is a local of
\* the whole method: an ENTRY's LOCATION children assign it, and an ENTRY with
\* none leaves it as the previous ENTRY left it (unbound when no ENTRY set it).
RECURSIVE TraktorCollectionPass(_, _)
TraktorCollectionPass(entries, st) ==
    IF entries = <<>> THEN st
    ELSE LET song == Head(entries)
             locs == song.LOCATION
             traktor_path ==
                 IF locs = <<>> THEN st.traktor_path
                 ELSE LET elmt == locs[Len(locs)]
                      IN  elmt.VOLUME \o elmt.DIR \o elmt.FILE
         IN  IF traktor_path = <<"unbound">>
             THEN [st EXCEPT !.error = "UnboundLocalError"]
             ELSE LET traktor_song == TraktorSong(song.TITLE, traktor_path)
                  IN  TraktorCollectionPass(Tail(entries),
                          [st EXCEPT !.traktor_path = traktor_path,
                                     !.songs = Append(@, traktor_song),
                                     !.songs_dict = DictSet(@, traktor_path, traktor_song)])

\* lines 233-250 and 420-426: the playlists of the retained container; a
\* reference that is no key of songs_dict raises KeyError
RECURSIVE PlaylistsPass(_, _)
PlaylistsPass(nodes, st) ==
    IF nodes = <<>> THEN st
    ELSE LET node == Head(nodes)
         IN  IF \E i \in 1..Len(node.keys) : node.keys[i] \notin DOMAIN st.songs_dict
             THEN [st EXCEPT !.error = "KeyError"]
             ELSE LET playlist_songs == [i \in 1..Len(node.keys) |-> st.songs_dict[node.keys[i]]]
                  IN  PlaylistsPass(Tail(nodes),
                          [st EXCEPT !.playlists = Append(@, Playlist(node.name, playlist_songs))])

\* TraktorParser.get_songs_and_playlists: starts from empty lists (lines 204-205)
TraktorTraversal(entries, nodes) ==
    LET start == [songs |-> <<>>, playlists |-> <<>>, songs_dict |-> EmptyDict,
                  traktor_path |-> <<"unbound">>, error |-> None]
        pass1 == TraktorCollectionPass(entries, start)
    IN  IF pass1.error # None THEN pass1 ELSE PlaylistsPass(nodes, pass1)

\* lines 405-414: the songs of the Rekordbox COLLECTION
RECURSIVE RecordBoxCollectionPass(_, _)
RecordBoxCollectionPass(entries, st) ==
    IF entries = <<>> THEN st
    ELSE LET ch == Head(entries)
             song == RecordSong(ch.TrackID, ch.Name, ch.Location)
         IN  RecordBoxCollectionPass(Tail(entries),
                 [st EXCEPT !.songs = Append(@, song),
                            !.songs_dict = DictSet(@, song.id, song)])

\* RecordBoxParser.get_songs_and_playlists: appends to the lists the object holds
RecordBoxTraversal(entries, nodes, songs0, playlists0) ==
    LET start == [songs |-> songs0, playlists |-> playlists0, songs_dict |-> EmptyDict,
                  traktor_path |-> <<"unbound">>, error |-> None]
    IN  PlaylistsPass(nodes, RecordBoxCollectionPass(entries, start))

Traversal(k, entries, nodes, songs0, playlists0) ==
    IF k = "Traktor" THEN TraktorTraversal(entries, nodes)
    ELSE RecordBoxTraversal(entries, nodes, songs0, playlists0)

---------------------------------------------------------------------------
(* add_playlist_to_tree *)

\* the optional index argument: <<>> is index=None, <<i>> is the integer i
NoIndex == <<>>

Min(S) == CHOOSE m \in S : \A n \in S : m <= n

\* list.index(x), 0-based: the first position holding x
Index(s, x) == Min({i \in 1..Len(s) : s[i] = x}) - 1

\* lines 269-273
ending_playlists(parser_playlists) ==
    SelectSeq(parser_playlists, LAMBDA playlist : playlist.name \in Reserved)

\* lines 274-280: the position of the earliest reserved playlist, or the number of
\* children of playlists_tree when none is reserved
max_index(parser_playlists, tree) ==
    LET ending == ending_playlists(parser_playlists)
    IN  IF Len(ending) # 0
        THEN Min({Index(parser_playlists, e) : e \in Range(ending)})
        ELSE Len(tree)

\* a mutation of TraktorIndex: an explicit index is used as given
TraktorIndexUnclamped(index, ceiling) ==
    IF index = NoIndex THEN ceiling ELSE index[1]

\* lines 282-285
TraktorIndex(index, ceiling) ==
    IF index = NoIndex THEN ceiling
    ELSE IF index[1] > ceiling THEN ceiling
    ELSE index[1]

\* lines 257-266 and 345-356: the NODE built for a playlist, one ENTRY per song
\* whose KEY is the token path of the song's path
TraktorNode(playlist) ==
    Node(playlist.name, ToString(nb_entries(playlist)),
         [i \in 1..Len(playlist.songs) |->
              normal_path_to_traktor_path(playlist.songs[i].path)])

\* TraktorParser.add_playlist_to_tree on the parser state st
TraktorAdd(st, playlist, index) ==
    LET node == TraktorNode(playlist)
        target == TraktorIndex(index, max_index(st.playlists, st.tree))
    IN  [st EXCEPT !.tree = ElementInsert(@, target, node),
                   !.playlists = ListInsert(@, target, playlist)]

\* a mutation of convert_traktor_song_to_recordbox: the last match, not the first
convert_last_match(traktor_song, parser_songs) ==
    LET results == SelectSeq(parser_songs, LAMBDA x : x.path = traktor_song.path)
    IN  IF Len(results) # 0
        THEN [error |-> None, song |-> results[Len(results)], named |-> None]
        ELSE [error |-> "Exception", song |-> traktor_song, named |-> traktor_song.name]

\* Exporter.convert_traktor_song_to_recordbox: the song returned, or the exception
\* raised and the song its message names
convert_traktor_song_to_recordbox(traktor_song, parser_songs) ==
    LET results == SelectSeq(parser_songs, LAMBDA x : x.path = traktor_song.path)
    IN  IF Len(results) # 0
        THEN [error |-> None, song |-> results[1], named |-> None]
        ELSE [error |-> "Exception", song |-> traktor_song, named |-> traktor_song.name]

\* a mutation of RecordBoxTracks: every TRACK is put first in the node
RECURSIVE RecordBoxTracksReversed(_, _, _)
RecordBoxTracksReversed(playlist_songs, parser_songs, built) ==
    IF playlist_songs = <<>> THEN built
    ELSE LET song == Head(playlist_songs)
             found == IF song.variant = "TraktorSong"
                      THEN convert_traktor_song_to_recordbox(song, parser_songs)
                      ELSE [error |-> None, song |-> song, named |-> None]
         IN  IF found.error # None
             THEN [built EXCEPT !.error = found.error, !.named = found.named]
             ELSE RecordBoxTracksReversed(Tail(playlist_songs), parser_songs,
                      [built EXCEPT !.keys = <<found.song.id>> \o @])

\* lines 445-452: the TRACK children appended to the new node, song by song; a
\* TraktorSong is converted first, and a failed conversion ends the loop
RECURSIVE RecordBoxTracks(_, _, _)
RecordBoxTracks(playlist_songs, parser_songs, built) ==
    IF playlist_songs = <<>> THEN built
    ELSE LET song == Head(playlist_songs)
             found == IF song.variant = "TraktorSong"
                      THEN convert_traktor_song_to_recordbox(song, parser_songs)
                      ELSE [error |-> None, song |-> song, named |-> None]
         IN  IF found.error # None
             THEN [built EXCEPT !.error = found.error, !.named = found.named]
             ELSE RecordBoxTracks(Tail(playlist_songs), parser_songs,
                      [built EXCEPT !.keys = Append(@, found.song.id)])

\* a mutation of RecordBoxIndex: no index puts the playlist first
RecordBoxIndexFront(index, tree) ==
    IF index = NoIndex THEN 0 ELSE index[1]

\* lines 455-457
RecordBoxIndex(index, tree) ==
    IF index = NoIndex THEN Len(tree) ELSE index[1]

\* a mutation of AttachNode: the node is in the tree while its tracks are added
AttachNodeEarly(tree, error, target, node) == ElementInsert(tree, target, node)

\* line 460, which an exception raised in the loop of lines 445-452 never reaches
AttachNode(tree, error, target, node) ==
    IF error # None THEN tree ELSE ElementInsert(tree, target, node)

\* RecordBoxParser.add_playlist_to_tree on the parser state st
RecordBoxAdd(st, parser_songs, playlist, index) ==
    LET built == RecordBoxTracks(playlist.songs, parser_songs,
                     [error |-> None, named |-> None, keys |-> <<>>])
        node == Node(playlist.name, ToString(nb_entries(playlist)), built.keys)
        target == RecordBoxIndex(index, st.tree)
    IN  [tree |-> AttachNode(st.tree, built.error, target, node),
         playlists |-> IF built.error # None THEN st.playlists
                       ELSE ListInsert(st.playlists, target, playlist),
         error |-> built.error,
         named |-> built.named]

AddOne(k, st, parser_songs, playlist, index) ==
    IF k = "Traktor" THEN TraktorAdd(st, playlist, index)
    ELSE RecordBoxAdd(st, parser_songs, playlist, index)

\* a mutation of AddEach: the playlists are taken last to first
RECURSIVE AddEachBackwards(_, _, _, _)
AddEachBackwards(k, st, parser_songs, given) ==
    IF given = <<>> \/ st.error # None THEN st
    ELSE AddEachBackwards(k, AddOne(k, st, parser_songs, given[Len(given)], NoIndex),
                          parser_songs, SubSeq(given, 1, Len(given) - 1))

\* Parser.add_playlists_to_tree: one add_playlist_to_tree per playlist, in order;
\* an exception ends the loop
RECURSIVE AddEach(_, _, _, _)
AddEach(k, st, parser_songs, given) ==
    IF given = <<>> \/ st.error # None THEN st
    ELSE AddEach(k, AddOne(k, st, parser_songs, Head(given), NoIndex),
                 parser_songs, Tail(given))

Current == [tree |-> playlists_tree, playlists |-> playlists,
            error |-> None, named |-> None]

AddPlaylistToTree(playlist, index) ==
    /\ status = "ready"
    /\ LET after == AddOne(kind, Current, songs, playlist, index)
       IN  /\ playlists_tree' = after.tree
           /\ playlists' = after.playlists
           /\ last' = [op |-> "add_playlist_to_tree", playlist |-> playlist,
                       index |-> index, error |-> after.error, named |-> after.named,
                       tree_before |-> playlists_tree, playlists_before |-> playlists]
    /\ UNCHANGED <<kind, status, collection, songs, files>>

AddPlaylistsToTree(given) ==
    /\ status = "ready"
    /\ LET after == AddEach(kind, Current, songs, given)
       IN  /\ playlists_tree' = after.tree
           /\ playlists' = after.playlists
           /\ last' = [op |-> "add_playlists_to_tree", given |-> given,
                       error |-> after.error, named |-> after.named,
                       tree_before |-> playlists_tree, playlists_before |-> playlists]
    /\ UNCHANGED <<kind, status, collection, songs, files>>

\* a direct call of Exporter.convert_traktor_song_to_recordbox(song, self)
ConvertTraktorSongToRecordbox(traktor_song) ==
    /\ status = "ready"
    /\ kind = "RecordBox"
    /\ LET found == convert_traktor_song_to_recordbox(traktor_song, songs)
       IN  last' = [op |-> "convert_traktor_song_to_recordbox", song |-> traktor_song,
                    error |-> found.error, named |-> found.named,
                    result |-> found.song, songs_before |-> songs]
    /\ UNCHANGED <<kind, status, collection, playlists_tree, songs, playlists, files>>

---------------------------------------------------------------------------
(* save_file *)

\* self.file_path: the path the parser was constructed from
LoadPath(k) == IF k = "Traktor" THEN "collection.nml" ELSE "recordbox.xml"

\* another destination
OtherPath == "export.xml"

Bak(path) == path \o ".bak"

\* what _save_tree writes: the whole document in the dialect's own layout
Serialize(k, entries, nodes) == [dialect |-> k, COLLECTION |-> entries, PLAYLISTS |-> nodes]

\* the content of a file as a sequence: <<>> when there is no such file
Read(fs, path) == IF path \in DOMAIN fs THEN <<fs[path]>> ELSE <<>>

\* shutil.copy(src, dst): dst is created or overwritten (src exists: it was parsed)
Copy(fs, src, dst) == DictSet(fs, dst, fs[src])

\* self.tree.write(file_path, ...)
Write(fs, path, content) == DictSet(fs, path, content)

\* a mutation of SaveSteps: the tree is written before the backup is taken
SaveStepsWriteFirst(fs, self_file_path, file_path, backup, content) ==
    LET destination == IF file_path = None THEN self_file_path ELSE file_path
        written == Write(fs, destination, content)
    IN  IF backup THEN Copy(written, self_file_path, Bak(self_file_path)) ELSE written

\* lines 173-178: the file system after save_file(file_path, backup)
SaveSteps(fs, self_file_path, file_path, backup, content) ==
    LET destination == IF file_path = None THEN self_file_path ELSE file_path
        copied == IF backup THEN Copy(fs, self_file_path, Bak(self_file_path)) ELSE fs
    IN  Write(copied, destination, content)

SaveFile(file_path, backup) ==
    /\ status = "ready"
    /\ files' = SaveSteps(files, LoadPath(kind), file_path, backup,
                          Serialize(kind, collection, playlists_tree))
    /\ last' = [op |-> "save_file", file_path |-> file_path, backup |-> backup,
                load_before |-> Read(files, LoadPath(kind)),
                backup_before |-> Read(files, Bak(LoadPath(kind))),
                destination_before |->
                    Read(files, IF file_path = None THEN LoadPath(kind) ELSE file_path)]
    /\ UNCHANGED <<kind, status, collection, playlists_tree, songs, playlists>>

---------------------------------------------------------------------------
(* Construction *)

\* the call of get_songs_and_playlists that ends Parser.__init__ (line 141)
GetSongsAndPlaylists ==
    /\ status = "parsed"
    /\ LET found == Traversal(kind, collection, playlists_tree, songs, playlists)
       IN  /\ songs' = found.songs
           /\ playlists' = found.playlists
           /\ status' = IF found.error = None THEN "ready" ELSE "error"
           /\ last' = [op |-> "get_songs_and_playlists", error |-> found.error]
    /\ UNCHANGED <<kind, collection, playlists_tree, files>>

\* get_songs_and_playlists called on a constructed parser: the same document,
\* and the lists as the object holds them at the call
GetSongsAndPlaylistsAgain ==
    /\ status = "ready"
    /\ last.op \in {"get_songs_and_playlists", "get_songs_and_playlists again"}
    /\ LET calls == IF last.op = "get_songs_and_playlists" THEN 0 ELSE last.calls
           found == Traversal(kind, collection, playlists_tree, songs, playlists)
       IN  /\ calls < MaxCalls
           /\ songs' = found.songs
           /\ playlists' = found.playlists
           /\ status' = IF found.error = None THEN "ready" ELSE "error"
           /\ last' = [op |-> "get_songs_and_playlists again",
                       error |-> found.error,
                       calls |-> calls + 1,
                       songs_before |-> songs,
                       playlists_before |-> playlists]
    /\ UNCHANGED <<kind, collection, playlists_tree, files>>

\* the state Parser.__init__ leaves for a well-formed document
Constructed(k, entries, nodes, fs) ==
    LET found == Traversal(k, entries, nodes, <<>>, <<>>)
    IN  /\ kind = k
        /\ status = "ready"
        /\ collection = entries
        /\ playlists_tree = nodes
        /\ songs = found.songs
        /\ playlists = found.playlists
        /\ files = fs
        /\ last = [op |-> "__init__"]

OnlyLoaded(k, entries, nodes) ==
    [path \in {LoadPath(k)} |-> Serialize(k, entries, nodes)]

EmptyNode(name) == Node(name, "0", <<>>)

---------------------------------------------------------------------------
(* Spec: where playlists land.  Both parsers, every index, one call or a batch *)

PosEntries(k) == IF k = "Traktor" THEN <<EntryA, EntryB>> ELSE <<Track1, Track2>>

PosNodes(k) ==
    IF k = "Traktor"
    THEN {<<>>, <<Node("House", "1", <<TokenA>>)>>,
          <<EmptyNode("_LOOPS"), EmptyNode("_RECORDINGS")>>}
    ELSE {<<>>, <<Node("House", "1", <<"1">>)>>}

\* SongA is in both collections; SongC is in neither
PosPlaylists == {Playlist(name, s) : name \in Names, s \in {<<SongA>>, <<SongC>>}}

Indexes == {NoIndex} \cup {<<i>> : i \in (0 - MaxIndex)..MaxIndex}

Init ==
    \E k \in Kinds : \E nodes \in PosNodes(k) :
        Constructed(k, PosEntries(k), nodes, OnlyLoaded(k, PosEntries(k), nodes))

AddOnePlaylist ==
    \E playlist \in PosPlaylists : \E index \in Indexes :
        /\ Len(playlists) < MaxPlaylists
        /\ AddPlaylistToTree(playlist, index)

AddSomePlaylists ==
    \E given \in SeqsUpTo(PosPlaylists, MaxBatch) :
        /\ Len(playlists) + Len(given) <= MaxPlaylists
        /\ AddPlaylistsToTree(given)

Next == AddOnePlaylist \/ AddSomePlaylists

Spec == Init /\ [][Next]_vars

---------------------------------------------------------------------------
(* MemberSpec: what a new playlist node holds *)

SongPool == {SongA, SongB, SongC, Record2}

MemberEntries(k) ==
    IF k = "Traktor" THEN {<<EntryA, EntryB>>}
    ELSE {<<Track1, Track2, Track3>>, <<Track3, Track1>>, <<Track1>>}

MemberPlaylists == {Playlist("House", s) : s \in SeqsUpTo(SongPool, MaxLen)}

MemberInit ==
    \E k \in Kinds : \E entries \in MemberEntries(k) :
        Constructed(k, entries, <<>>, OnlyLoaded(k, entries, <<>>))

Transfer ==
    \E playlist \in MemberPlaylists :
        /\ Len(playlists) < MaxTransfers
        /\ AddPlaylistToTree(playlist, NoIndex)

Resolve ==
    \E song \in {x \in SongPool : x.variant = "TraktorSong"} :
        ConvertTraktorSongToRecordbox(song)

MemberNext == Transfer \/ Resolve

MemberSpec == MemberInit /\ [][MemberNext]_vars

---------------------------------------------------------------------------
(* SaveSpec: saving, with and without backup, between insertions *)

\* a file left by an earlier run
OldContent(k) == Serialize(k, PosEntries(k), <<EmptyNode("Old")>>)

SaveInit ==
    \E k \in Kinds : \E old \in SUBSET {Bak(LoadPath(k)), OtherPath} :
        Constructed(k, PosEntries(k), <<>>,
            [path \in {LoadPath(k)} \cup old |->
                 IF path = LoadPath(k) THEN Serialize(k, PosEntries(k), <<>>)
                 ELSE OldContent(k)])

Destinations == {None, LoadPath(kind), OtherPath, Bak(LoadPath(kind))}

AddBetweenSaves ==
    /\ Len(playlists) < MaxPlaylists
    /\ AddPlaylistToTree(Playlist("House", <<>>), NoIndex)

Save == \E file_path \in Destinations : \E backup \in BOOLEAN : SaveFile(file_path, backup)

SaveNext == AddBetweenSaves \/ Save

SaveSpec == SaveInit /\ [][SaveNext]_vars

---------------------------------------------------------------------------
(* ParseSpec: the traversal of a document at construction *)

TraktorEntries ==
    {TraktorEntry(title, locations) :
        title \in {"A", "B"},
        locations \in {<<>>, <<Location(<<"a">>)>>, <<Location(<<"b", " ", "c">>)>>}}

ParseEntries(k) ==
    IF k = "Traktor" THEN SeqsUpTo(TraktorEntries, MaxEntries)
    ELSE SeqsUpTo({Track1, Track2, Track3}, MaxEntries)

ParseNodes(k) ==
    IF k = "Traktor" THEN {<<>>, <<Node("House", "1", <<TokenA>>)>>}
    ELSE {<<>>, <<Node("House", "1", <<"1">>)>>}

ParseInit ==
    \E k \in Kinds : \E entries \in ParseEntries(k) : \E nodes \in ParseNodes(k) :
        /\ kind = k
        /\ status = "parsed"
        /\ collection = entries
        /\ playlists_tree = nodes
        /\ songs = <<>>
        /\ playlists = <<>>
        /\ files = OnlyLoaded(k, entries, nodes)
        /\ last = [op |-> "parse"]

ParseNext == GetSongsAndPlaylists \/ GetSongsAndPlaylistsAgain

ParseSpec == ParseInit /\ [][ParseNext]_vars

---------------------------------------------------------------------------
(* Properties *)

NodeNames(tree) == [i \in 1..Len(tree) |-> tree[i].name]

IsAdd == last.op = "add_playlist_to_tree"

IsBatch == last.op = "add_playlists_to_tree"

\* the 1-based places of the reserved playlists in a playlist sequence
ReservedPlaces(s) == {j \in 1..Len(s) : s[j].name \in Reserved}

\* the ceiling as the claims word it: the 0-based position of the earliest reserved
\* playlist, or the number of playlists when none is reserved
Ceiling(s) == IF ReservedPlaces(s) # {} THEN Min(ReservedPlaces(s)) - 1 ELSE Len(s)

\* the last call put its playlist at 0-based position pos of the sequence and its
\* node at the same position of the tree, everything else keeping its order
Landed(pos) ==
    /\ playlists = InsertAt(last.playlists_before, pos, last.playlist)
    /\ NodeNames(playlists_tree) =
           InsertAt(NodeNames(last.tree_before), pos, last.playlist.name)

\* C1: after every add_playlist_to_tree, whatever the index, the playlists
\* sequence and the children of playlists_tree have the same length and the node
\* at each position carries the name of the playlist at that position.
C1_LockStep ==
    status = "ready" =>
        /\ Len(playlists) = Len(playlists_tree)
        /\ \A i \in 1..Len(playlists) : playlists_tree[i].name = playlists[i].name

\* C1 witness: a call with a negative index and one with an index beyond the end,
\* on a collection that already held two playlists
C1_Witness ==
    /\ IsAdd
    /\ last.error = None
    /\ last.index # NoIndex
    /\ \/ last.index[1] < 0
       \/ last.index[1] > Len(last.playlists_before)
    /\ Len(last.playlists_before) >= 2
    /\ last.playlists_before[1].name # last.playlists_before[2].name

\* C2: on a TraktorParser, a playlist added with no index lands before every
\* reserved playlist when there is one and last otherwise; one added with an index
\* above the ceiling lands exactly at the ceiling.
C2_TraktorPositioning ==
    (IsAdd /\ kind = "Traktor") =>
        LET before == last.playlists_before
        IN  /\ (last.index = NoIndex /\ ReservedPlaces(before) # {}) =>
                   \E pos \in 0..Len(before) :
                       /\ Landed(pos)
                       /\ \A j \in ReservedPlaces(before) : j > pos
            /\ (last.index = NoIndex /\ ReservedPlaces(before) = {}) =>
                   Landed(Len(before))
            /\ (last.index # NoIndex /\ last.index[1] > Ceiling(before)) =>
                   Landed(Ceiling(before))

\* C2 witness: an index above the ceiling and within the sequence, with a user
\* playlist before the reserved ones
C2_Witness ==
    /\ IsAdd
    /\ kind = "Traktor"
    /\ last.index # NoIndex
    /\ last.index[1] > Ceiling(last.playlists_before)
    /\ last.index[1] <= Len(last.playlists_before)
    /\ Ceiling(last.playlists_before) >= 1
    /\ ReservedPlaces(last.playlists_before) # {}

\* C3: on a TraktorParser, whatever the index (none, non-negative or negative), the
\* new playlist lands before every reserved playlist that was there.
C3_ReservedStayTrailing ==
    (IsAdd /\ kind = "Traktor") =>
        \E pos \in 0..Len(last.playlists_before) :
            /\ Landed(pos)
            /\ \A j \in ReservedPlaces(last.playlists_before) : j > pos

\* C4: on a RecordBoxParser, a playlist added with no index is the last of the
\* sequence and of the tree, and a batch whose songs all resolve leaves the
\* previous content followed by the batch, in the order given.
C4_RecordBoxAppends ==
    kind = "RecordBox" =>
        /\ (IsAdd /\ last.error = None /\ last.index = NoIndex) =>
               Landed(Len(last.playlists_before))
        /\ (IsBatch /\ last.error = None) =>
               /\ playlists = last.playlists_before \o last.given
               /\ NodeNames(playlists_tree) =
                      NodeNames(last.tree_before) \o
                      [i \in 1..Len(last.given) |-> last.given[i].name]
               /\ SubSeq(playlists_tree, 1, Len(last.tree_before)) = last.tree_before

\* C4 witness: a batch of two different playlists after an existing one
C4_Witness ==
    /\ IsBatch
    /\ kind = "RecordBox"
    /\ last.error = None
    /\ Len(last.given) >= 2
    /\ last.given[1].name # last.given[2].name
    /\ Len(last.playlists_before) >= 1

\* the Rekordbox song a Traktor song stands for: the first of the collection, in
\* order, with the same path
Counterparts(song) == {j \in 1..Len(songs) : songs[j].path = song.path}

AllTraktorWithCounterpart(playlist) ==
    \A i \in 1..Len(playlist.songs) :
        /\ playlist.songs[i].variant = "TraktorSong"
        /\ Counterparts(playlist.songs[i]) # {}

\* C5: transferring a playlist of Traktor songs that all have a counterpart gives
\* a node with the playlist's name whose TRACK keys are, in order and with
\* duplicates, the ids of the songs resolved, and whose Entries is their number.
C5_MemberOrder ==
    (IsAdd /\ kind = "RecordBox" /\ AllTraktorWithCounterpart(last.playlist)) =>
        /\ last.error = None
        /\ Len(playlists_tree) = Len(last.tree_before) + 1
        /\ LET node == playlists_tree[Len(playlists_tree)]
               given == last.playlist.songs
           IN  /\ node.name = last.playlist.name
               /\ Len(node.keys) = Len(given)
               /\ \A i \in 1..Len(given) :
                      node.keys[i] = songs[Min(Counterparts(given[i]))].id
               /\ node.entries = ToString(Len(node.keys))

\* C5 witness: two songs in an order that is not the collection's
C5_Witness ==
    /\ IsAdd
    /\ kind = "RecordBox"
    /\ AllTraktorWithCounterpart(last.playlist)
    /\ Len(last.playlist.songs) >= 2
    /\ playlists_tree[Len(playlists_tree)].keys = <<"2", "1">>

\* C6: convert_traktor_song_to_recordbox returns the first song of the collection,
\* in order, whose path equals the given song's, raises an exception naming the
\* song when there is none, and leaves the collection as it was.
C6_Resolution ==
    last.op = "convert_traktor_song_to_recordbox" =>
        /\ Counterparts(last.song) # {} =>
               /\ last.error = None
               /\ last.result = songs[Min(Counterparts(last.song))]
               /\ last.result.path = last.song.path
        /\ Counterparts(last.song) = {} =>
               /\ last.error = "Exception"
               /\ last.named = last.song.name
        /\ songs = last.songs_before

\* C6 witness: two songs of the collection have the path looked for
C6_Witness ==
    /\ last.op = "convert_traktor_song_to_recordbox"
    /\ Cardinality(Counterparts(last.song)) >= 2
    /\ last.error = None

\* the places of the songs of a playlist that have no counterpart
Unresolved(playlist) ==
    {i \in 1..Len(playlist.songs) :
        /\ playlist.songs[i].variant = "TraktorSong"
        /\ Counterparts(playlist.songs[i]) = {}}

FailsAtSecondOrLater ==
    /\ IsAdd
    /\ kind = "RecordBox"
    /\ Unresolved(last.playlist) # {}
    /\ Min(Unresolved(last.playlist)) >= 2

\* C7 as stated: when the k-th song (k >= 2) has no counterpart, a node holding the
\* first k-1 track references is left attached to the tree.
C7_PartialNodeAttached ==
    FailsAtSecondOrLater =>
        \E i \in 1..Len(playlists_tree) :
            /\ playlists_tree[i].name = last.playlist.name
            /\ Len(playlists_tree[i].keys) = Min(Unresolved(last.playlist)) - 1
            /\ Len(playlists_tree) = Len(last.tree_before) + 1

\* C7 amended: when the k-th song (k >= 2) has no counterpart, the call raises the
\* exception naming that song and attaches nothing: the tree and the sequence are
\* as before the call.
C7_NothingAttached ==
    FailsAtSecondOrLater =>
        /\ last.error = "Exception"
        /\ last.named =
               last.playlist.songs[Min(Unresolved(last.playlist))].name
        /\ playlists_tree = last.tree_before
        /\ playlists = last.playlists_before

\* C7 witness: the second song of a transferred playlist has no counterpart
C7_Witness ==
    /\ FailsAtSecondOrLater
    /\ Counterparts(last.playlist.songs[1]) # {}
    /\ last.error = "Exception"

\* C8: every reference of the node a successful insertion adds identifies a song of
\* the parser's own collection: a token path of a Traktor song, an id of a
\* Rekordbox song.
C8_Membership ==
    (IsAdd /\ last.error = None) =>
        LET node == playlists_tree[Len(playlists_tree)]
        IN  \A i \in 1..Len(node.keys) :
                \E j \in 1..Len(songs) :
                    IF kind = "Traktor"
                    THEN songs[j].source_path = node.keys[i]
                    ELSE songs[j].id = node.keys[i]

\* the destination of the last save_file
Destination == IF last.file_path = None THEN LoadPath(kind) ELSE last.file_path

Document == Serialize(kind, collection, playlists_tree)

\* C9 as stated: after save_file(path, backup=True) the file at the destination
\* path with ".bak" appended holds what the destination held before the call.
C9_BackupOfDestination ==
    (last.op = "save_file" /\ last.backup /\ last.destination_before # <<>>) =>
        Read(files, Bak(Destination)) = last.destination_before

\* C9 amended: after save_file(path, backup=True) the file at the path the parser
\* was loaded from with ".bak" appended holds what the loaded file held before the
\* call, an earlier backup being overwritten and the copy being taken before the
\* write; when the destination is that backup file itself it holds the document
\* just written.  It is the destination's backup when the destination is the
\* loaded file.
C9_BackupOfLoadedFile ==
    (last.op = "save_file" /\ last.backup) =>
        /\ Read(files, Destination) = <<Document>>
        /\ Destination # Bak(LoadPath(kind)) =>
               Read(files, Bak(LoadPath(kind))) = last.load_before
        /\ Destination = LoadPath(kind) =>
               Read(files, Bak(Destination)) = last.destination_before

\* C9 witness: a save over the loaded file, whose content the insertions since
\* have outdated, with an earlier and different backup in place
C9_Witness ==
    /\ last.op = "save_file"
    /\ last.backup
    /\ Destination = LoadPath(kind)
    /\ last.load_before # <<Document>>
    /\ last.backup_before # <<>>
    /\ last.backup_before # last.load_before

\* C10: when an ENTRY of the Traktor COLLECTION has no LOCATION child, the
\* traversal fails and produces no song for that ENTRY.
C10_MissingLocationFatal ==
    LET missing == {i \in 1..Len(collection) : collection[i].LOCATION = <<>>}
    IN  (last.op = "get_songs_and_playlists" /\ kind = "Traktor" /\ missing # {}) =>
            /\ status = "error"
            /\ Len(songs) < Min(missing)

---------------------------------------------------------------------------
(* CodecSpec: the token-path conversions of Song on native paths *)

\* the characters of a native path: the separator, the two characters of the
\* token, and an ordinary one
PathChars == {"\\", "/", ":", "a"}

NativePaths == SeqsUpTo(PathChars, MaxPathLen)

CodecInit ==
    \E path \in NativePaths :
        /\ kind = "Traktor"
        /\ status = "ready"
        /\ collection = <<>>
        /\ playlists_tree = <<>>
        /\ songs = <<>>
        /\ playlists = <<>>
        /\ files = OnlyLoaded("Traktor", <<>>, <<>>)
        /\ last = [op |-> "path", path |-> path]

\* Song.normal_path_to_traktor_path(path)
TokenEncode ==
    /\ last.op = "path"
    /\ last' = [op |-> "normal_path_to_traktor_path", path |-> last.path,
                traktor_path |-> normal_path_to_traktor_path(last.path)]
    /\ UNCHANGED <<kind, status, collection, playlists_tree, songs, playlists, files>>

\* Song.traktor_path_to_normal_path(traktor_path) on the token path just made
TokenDecode ==
    /\ last.op = "normal_path_to_traktor_path"
    /\ last' = [op |-> "traktor_path_to_normal_path", path |-> last.path,
                traktor_path |-> last.traktor_path,
                normal_path |-> traktor_path_to_normal_path(last.traktor_path)]
    /\ UNCHANGED <<kind, status, collection, playlists_tree, songs, playlists, files>>

CodecNext == TokenEncode \/ TokenDecode

CodecSpec == CodecInit /\ [][CodecNext]_vars

\* the sequence s holds the sequence part somewhere
Contains(s, part) ==
    \E i \in 1..(Len(s) - Len(part) + 1) : SubSeq(s, i, i + Len(part) - 1) = part

\* C11: a native path that does not contain "/:" is what decoding its token path
\* gives back, also when a "/" comes right before a backslash or a ":" right after
\* one.
C11_TokenRoundTrip ==
    (last.op = "traktor_path_to_normal_path" /\ ~Contains(last.path, Token)) =>
        last.normal_path = last.path

\* C11 witness: a "/" right before a backslash and a ":" right after it
C11_Witness ==
    /\ last.op = "traktor_path_to_normal_path"
    /\ last.path = <<"/", "\\", ":">>
    /\ last.traktor_path = <<"/", "/", ":", ":">>
    /\ last.normal_path = last.path

---------------------------------------------------------------------------
(* Order of a batch on a TraktorParser *)

\* the elements of s at the places P, in the order of s
RECURSIVE Pick(_, _)
Pick(s, P) ==
    IF P = {} THEN <<>>
    ELSE LET first == Min(P) IN <<s[first]>> \o Pick(s, P \ {first})

\* after is before with the elements of given put in, in the order of given, the
\* elements of before keeping theirs
Interleaved(after, before, given) ==
    \E P \in SUBSET (1..Len(after)) :
        /\ Pick(after, P) = given
        /\ Pick(after, (1..Len(after)) \ P) = before

GivenInOrder ==
    /\ Interleaved(playlists, last.playlists_before, last.given)
    /\ Interleaved(NodeNames(playlists_tree), NodeNames(last.tree_before),
                   [i \in 1..Len(last.given) |-> last.given[i].name])

\* C12 as stated: after add_playlists_to_tree on a TraktorParser the given
\* playlists, whatever their names, are in the sequence and in the tree in the
\* order given.
C12_OrderPreserved ==
    (IsBatch /\ kind = "Traktor") => GivenInOrder

\* C12 amended: the given playlists are in the sequence and in the tree in the
\* order given when none of them has a reserved name (equal names allowed).
C12_OrderPreservedUnreserved ==
    (IsBatch /\ kind = "Traktor" /\ ReservedPlaces(last.given) = {}) => GivenInOrder

\* C12 witness: two different playlists of the same name given to a collection
\* that ends with a reserved playlist
C12_Witness ==
    /\ IsBatch
    /\ kind = "Traktor"
    /\ Len(last.given) = 2
    /\ last.given[1] # last.given[2]
    /\ last.given[1].name = last.given[2].name
    /\ ReservedPlaces(last.given) = {}
    /\ ReservedPlaces(last.playlists_before) # {}
    /\ playlists = SubSeq(last.playlists_before, 1, Len(last.playlists_before) - 1)
                   \o last.given
                   \o <<last.playlists_before[Len(last.playlists_before)]>>

---------------------------------------------------------------------------
(* An explicit index on a RecordBoxParser *)

ExplicitRecordBoxAdd ==
    /\ IsAdd
    /\ kind = "RecordBox"
    /\ last.error = None
    /\ last.index # NoIndex

\* s[i] as Python reads it holds x: i counts from the end when negative
HoldsAt(s, i, x) ==
    IF i >= 0
    THEN i < Len(s) /\ s[i + 1] = x
    ELSE Len(s) + i >= 0 /\ s[Len(s) + i + 1] = x

\* C13 as stated: with an explicit index the new playlist is at exactly that
\* position of the sequence and of the tree, whatever the index.
C13_ExactIndex ==
    ExplicitRecordBoxAdd =>
        /\ HoldsAt(playlists, last.index[1], last.playlist)
        /\ HoldsAt(NodeNames(playlists_tree), last.index[1], last.playlist.name)

\* C13 amended: with an explicit index from 0 to the number of playlists the new
\* playlist is at exactly that position; with a greater index it is the last
\* element; with a negative index it is that many places before the end, and
\* first when the index reaches further back than the start.
C13_IndexAsInsert ==
    ExplicitRecordBoxAdd =>
        LET i == last.index[1]
            n == Len(last.playlists_before)
        IN  /\ (0 <= i /\ i <= n) => Landed(i)
            /\ i > n => Landed(n)
            /\ (i < 0 /\ n + i >= 0) => Landed(n + i)
            /\ n + i < 0 => Landed(0)

\* C13 witness: an index two or more beyond the end of a collection that is not
\* empty
C13_Witness ==
    /\ ExplicitRecordBoxAdd
    /\ Len(last.playlists_before) >= 1
    /\ last.index[1] > Len(last.playlists_before) + 1
    /\ playlists[Len(playlists)] = last.playlist
    /\ last.playlists_before[1] # last.playlist

---------------------------------------------------------------------------
(* get_songs_and_playlists on a constructed parser *)

\* C14: a call of get_songs_and_playlists on a constructed parser leaves songs
\* and playlists as they were, and playlists still matches the children of
\* playlists_tree one to one.
C14_RetraversalIdempotent ==
    last.op = "get_songs_and_playlists again" =>
        /\ songs = last.songs_before
        /\ playlists = last.playlists_before
        /\ NodeNames(playlists_tree) = [i \in 1..Len(playlists) |-> playlists[i].name]

=============================================================================
